---- MODULE Spec2Model ----
(***************************************************************************)
(* Model of the metric logger of multiprop (src/logger.py, class Logger).  *)
(*                                                                         *)
(* A Logger holds one mapping, logs, from metric names to lists of         *)
(* numbers, plus the entry 'info'.  Python values are modelled as follows: *)
(*   - a metric value (loss, roc, lr, run, epoch) is an integer;           *)
(*   - a list is a sequence, index i of Python being index i+1 here;       *)
(*   - None is PyNone, an info dictionary is a record tagged "dict";       *)
(*   - a dict is a function from its keys; a dict whose iteration order    *)
(*     matters (results_dict) is the sequence of its (key, value) items;   *)
(*   - an exception that leaves a method is the string naming it, kept in  *)
(*     the variable exc ("none" when the call returned).                   *)
(***************************************************************************)
EXTENDS Integers, Sequences, FiniteSets, TLC

VARIABLES
    logs,       \* self.logs: the mapping itself
    logsType,   \* "defaultdict" (after __init__) or "dict" (after load)
    files,      \* the file system: path -> text written (a token sequence)
    calls,      \* history: the key set of every log call since construction
    op,         \* the method called last ("init" after construction)
    arg,        \* its argument
    ret,        \* what it returned, plotted or printed
    exc         \* the exception it raised, "none" if it returned

vars == <<logs, logsType, files, calls, op, arg, ret, exc>>

----------------------------------------------------------------------------
(* Bounds of the model. *)

MaxCalls == 3       \* log calls per behaviour
MaxRun == 2         \* run numbers are 1..MaxRun
MaxLen == 3         \* longest list handed to run_slice and mean_values
MaxEpochs == 3      \* epochs in the logs of one experiment file

(* Input values. *)
Losses == {1, 2}
Runs == 1 .. MaxRun
NoArg == <<>>
NoRet == <<>>

----------------------------------------------------------------------------
(* Python values and helpers. *)

PyNone == [type |-> "NoneType"]
PyInt(n) == [type |-> "int", val |-> n]
PyStr(s) == [type |-> "str", val |-> s]
PyDict(f) == [type |-> "dict", items |-> f]

Range(s) == {s[i] : i \in DOMAIN s}

\* d[k] = v on a dict
Put(d, k, v) == [x \in (DOMAIN d) \cup {k} |-> IF x = k THEN v ELSE d[x]]

RECURSIVE SumSeq(_)
SumSeq(s) == IF s = <<>> THEN 0 ELSE s[1] + SumSeq(Tail(s))

\* the first index (1-based) holding the least / greatest value of a
\* non-empty sequence: builtin min(range, key=), np.argmin, np.argmax
FirstMinIdx(s) ==
    CHOOSE i \in DOMAIN s : /\ \A j \in DOMAIN s : s[i] <= s[j]
                            /\ \A j \in 1 .. i - 1 : s[j] > s[i]
FirstMaxIdx(s) ==
    CHOOSE i \in DOMAIN s : /\ \A j \in DOMAIN s : s[i] >= s[j]
                            /\ \A j \in 1 .. i - 1 : s[j] < s[i]
MinOf(s) == s[FirstMinIdx(s)]
MaxOf(s) == s[FirstMaxIdx(s)]

\* s[start:stop] of Python, start and stop 0-based
PySlice(s, start, stop) ==
    IF stop <= start THEN <<>> ELSE SubSeq(s, start + 1, stop)

----------------------------------------------------------------------------
(* Logger.__init__ *)

sample_sets == {"train", "valid", "test"}

\* the info dictionary of an experiment of num_runs runs
Info(num_runs) ==
    PyDict([model_type |-> PyStr("GNN"),
            num_runs |-> PyInt(num_runs),
            trainable_parameters |-> PyInt(5)])

Infos == {PyNone, Info(MaxRun)}

NewLogs(info) == [k \in {"info"} |-> info]

\* the state Logger(info) is constructed in
Fresh(info) ==
    /\ logs = NewLogs(info)
    /\ logsType = "defaultdict"
    /\ files = <<>>
    /\ calls = <<>>
    /\ op = "init"
    /\ ret = NoRet
    /\ exc = "none"

Init == (\E info \in Infos : Fresh(info)) /\ arg = NoArg

----------------------------------------------------------------------------
(* Logger.log *)

\* AppendTo with the value put in front of the list: a faulty variant that
\* C1 must tell from AppendTo
AppendFront(st, type, k, x) ==
    IF st.exc # "none" THEN st
    ELSE IF k \notin DOMAIN st.logs
    THEN IF type = "defaultdict"
         THEN [st EXCEPT !.logs = Put(st.logs, k, <<x>>)]
         ELSE [st EXCEPT !.exc = "KeyError"]
    ELSE IF k = "info"
    THEN [st EXCEPT !.exc = "AttributeError"]
    ELSE [st EXCEPT !.logs = Put(st.logs, k, <<x>> \o st.logs[k])]

\* self.logs[k].append(x) on the state st = [logs, exc]: a defaultdict makes
\* the missing list, a plain dict raises KeyError, and a value that is no
\* list (the 'info' entry) has no append.
AppendTo(st, type, k, x) ==
    IF st.exc # "none" THEN st
    ELSE IF k \notin DOMAIN st.logs
    THEN IF type = "defaultdict"
         THEN [st EXCEPT !.logs = Put(st.logs, k, <<x>>)]
         ELSE [st EXCEPT !.exc = "KeyError"]
    ELSE IF k = "info"
    THEN [st EXCEPT !.exc = "AttributeError"]
    ELSE [st EXCEPT !.logs = Put(st.logs, k, Append(st.logs[k], x))]

\* LogItem with the roc appended to the loss list: a faulty variant that C2
\* must tell from LogItem
LogItemLossTwice(st, type, item) ==
    LET k == item[1]
        v == item[2]
    IN  IF k \in sample_sets
        THEN AppendTo(AppendTo(st, type, k \o "_loss", v.loss),
                      type, k \o "_loss", v.roc)
        ELSE AppendTo(st, type, k, v)

\* one iteration of the loop over results_dict.items()
LogItem(st, type, item) ==
    LET k == item[1]
        v == item[2]
    IN  IF k \in sample_sets
        THEN AppendTo(AppendTo(st, type, k \o "_loss", v.loss),
                      type, k \o "_roc", v.roc)
        ELSE AppendTo(st, type, k, v)

RECURSIVE LogItems(_, _, _)
LogItems(st, type, items) ==
    IF items = <<>> THEN st
    ELSE LogItems(LogItem(st, type, Head(items)), type, Tail(items))

log(l, type, results_dict) ==
    LogItems([logs |-> l, exc |-> "none"], type, results_dict)

Keys(results_dict) == {results_dict[i][1] : i \in DOMAIN results_dict}

Log(results_dict) ==
    /\ Len(calls) < MaxCalls
    /\ LET r == log(logs, logsType, results_dict)
       IN  /\ logs' = r.logs
           /\ exc' = r.exc
    /\ calls' = Append(calls, Keys(results_dict))
    /\ op' = "log"
    /\ arg' = results_dict
    /\ ret' = NoRet
    /\ UNCHANGED <<logsType, files>>

----------------------------------------------------------------------------
(* The results dictionaries the trainer hands to log. *)

\* the value of a sample set: the roc falls as the loss rises
Metrics(loss) == [loss |-> loss, roc |-> 3 - loss]

ValuesOf(k) ==
    IF k = "run" THEN Runs
    ELSE IF k \in {"epoch", "lr"} THEN {1}
    ELSE {Metrics(l) : l \in Losses}

\* every dictionary whose keys, in order, are keyOrder
RECURSIVE DictsOver(_)
DictsOver(keyOrder) ==
    IF keyOrder = <<>> THEN {<<>>}
    ELSE {<<<<Head(keyOrder), v>>>> \o d :
            v \in ValuesOf(Head(keyOrder)), d \in DictsOver(Tail(keyOrder))}

FullKeys == <<"run", "epoch", "lr", "train", "valid">>

\* the results of an epoch
EpochDicts == DictsOver(FullKeys)

\* calls with different sets of keys, in different orders
ResultsDicts ==
    DictsOver(<<"lr">>) \cup DictsOver(<<"test", "run">>)
    \cup {d \in EpochDicts : d[4][2] = d[5][2]}

NextLog == \E rd \in ResultsDicts : Log(rd)

SpecLog == Init /\ [][NextLog]_vars

----------------------------------------------------------------------------
(* list.index, list[::-1] and Logger.run_slice *)

RECURSIVE Reverse(_)
Reverse(s) == IF s = <<>> THEN <<>> ELSE Append(Reverse(Tail(s)), Head(s))

\* s.index(x), 0-based; only called when x occurs in s
RECURSIVE PyIndex(_, _)
PyIndex(s, x) == IF Head(s) = x THEN 0 ELSE 1 + PyIndex(Tail(s), x)

\* RunBounds stopping at the last occurrence instead of one past it: a
\* faulty variant that C4 must tell from RunBounds
RunBoundsLastStart(run, run_list) ==
    IF run \notin Range(run_list)
    THEN [exc |-> "ValueError"]
    ELSE [exc |-> "none",
          start |-> PyIndex(run_list, run),
          stop |-> Len(run_list) - PyIndex(Reverse(run_list), run) - 1]

\* the two lines computing run_start and run_end (they are repeated in
\* plot_run and print); list.index raises ValueError when run is absent
RunBounds(run, run_list) ==
    IF run \notin Range(run_list)
    THEN [exc |-> "ValueError"]
    ELSE [exc |-> "none",
          start |-> PyIndex(run_list, run),
          stop |-> Len(run_list) - PyIndex(Reverse(run_list), run)]

run_slice(run, run_list) == RunBounds(run, run_list)

\* lst[slice(start, stop)]
Sliced(lst, sl) == PySlice(lst, sl.start, sl.stop)

----------------------------------------------------------------------------
(* Reading self.logs[k]: a defaultdict inserts an empty list for a missing *)
(* key, a plain dict raises KeyError.  st is [logs, exc].                  *)

Read(st, type, k) ==
    IF st.exc # "none" \/ k \in DOMAIN st.logs THEN st
    ELSE IF type = "defaultdict"
    THEN [st EXCEPT !.logs = Put(st.logs, k, <<>>)]
    ELSE [st EXCEPT !.exc = "KeyError"]

RECURSIVE ReadAll(_, _, _)
ReadAll(st, type, ks) ==
    IF ks = <<>> THEN st
    ELSE ReadAll(Read(st, type, Head(ks)), type, Tail(ks))

Raise(st, e) == [st EXCEPT !.exc = e]

----------------------------------------------------------------------------
(* Logger.plot_run *)

\* np.argmax(self.logs['valid_loss']), 0-based
BestIdx(valid_loss) == FirstMaxIdx(valid_loss) - 1

\* run is PyNone or PyInt(r).  The result is [logs, exc, plot]: the logs the
\* reads leave behind, the exception, and the run and curves plotted.
plot_run(l, type, run) ==
    LET s1 == Read([logs |-> l, exc |-> "none", plot |-> NoRet], type, "run")
        runs == s1.logs["run"]
        unspecified == run = PyNone \/ run = PyInt(0)
        s2 == IF unspecified THEN Read(s1, type, "valid_loss") ELSE s1
    IN  IF s2.exc # "none" THEN s2
        ELSE IF unspecified /\ s2.logs["valid_loss"] = <<>>
        THEN Raise(s2, "ValueError")
        ELSE IF unspecified /\ BestIdx(s2.logs["valid_loss"]) >= Len(runs)
        THEN Raise(s2, "IndexError")
        ELSE
          LET r == IF unspecified
                   THEN runs[BestIdx(s2.logs["valid_loss"]) + 1]
                   ELSE run.val
              b == RunBounds(r, runs)
              s3 == ReadAll(s2, type,
                       <<"train_loss", "valid_loss", "lr", "train_roc", "valid_roc">>)
          IN  IF b.exc # "none" THEN Raise(s2, b.exc)
              ELSE IF s3.exc # "none" THEN s3
              ELSE [s3 EXCEPT !.plot =
                      [run |-> r,
                       start |-> b.start,
                       stop |-> b.stop,
                       train_loss |-> Sliced(s3.logs["train_loss"], b),
                       valid_loss |-> Sliced(s3.logs["valid_loss"], b),
                       lr |-> Sliced(s3.logs["lr"], b),
                       train_roc |-> Sliced(s3.logs["train_roc"], b),
                       valid_roc |-> Sliced(s3.logs["valid_roc"], b)]]

PlotRun(run) ==
    /\ LET r == plot_run(logs, logsType, run)
       IN  /\ logs' = r.logs
           /\ exc' = r.exc
           /\ ret' = r.plot
    /\ op' = "plot_run"
    /\ arg' = run
    /\ UNCHANGED <<logsType, files, calls>>

----------------------------------------------------------------------------
(* Logger.print *)

\* np.mean of a non-empty list as the fraction <<sum, count>>, and np.std as
\* its square, the variance, as the fraction <<n*sum(x^2) - sum(x)^2, n^2>>
Mean(xs) == <<SumSeq(xs), Len(xs)>>
Variance(xs) ==
    <<Len(xs) * SumSeq([i \in DOMAIN xs |-> xs[i] * xs[i]])
        - SumSeq(xs) * SumSeq(xs), Len(xs) * Len(xs)>>
SameFraction(p, q) == p[1] * q[2] = q[1] * p[2]

\* BestInRun taking the last of the least values: a faulty variant that C7
\* must tell from BestInRun
BestInRunLast(xs) ==
    (CHOOSE i \in DOMAIN xs : /\ \A j \in DOMAIN xs : xs[i] <= xs[j]
                              /\ \A j \in i + 1 .. Len(xs) : xs[j] > xs[i]) - 1

\* the index min(range(len(xs)), key=xs.__getitem__) of the best model in a
\* run's slice xs of valid_loss, 0-based: the first of the least values
BestInRun(xs) == FirstMinIdx(xs) - 1

\* the loop body for run r on the state st = [logs, exc, tl, tr, vl, vr];
\* the four lists are local to print and lost when it raises
PrintRun(st, type, runs, r) ==
    LET b == RunBounds(r, runs)
        s1 == Read(st, type, "valid_loss")
    IN  IF st.exc # "none" THEN st
        ELSE IF b.exc # "none" THEN Raise(st, b.exc)
        ELSE IF s1.exc # "none" THEN s1
        ELSE IF Sliced(s1.logs["valid_loss"], b) = <<>>
        THEN Raise(s1, "ValueError")
        ELSE
          LET best_idx == BestInRun(Sliced(s1.logs["valid_loss"], b))
              s2 == Read(s1, type, "train_loss")
              s3 == Read(s2, type, "train_roc")
              s4 == Read(s3, type, "valid_roc")
              At(k) == Sliced(s4.logs[k], b)[best_idx + 1]
              Short(s, k) == best_idx >= Len(Sliced(s.logs[k], b))
          IN  IF s2.exc # "none" THEN s2
              ELSE IF Short(s2, "train_loss") THEN Raise(s2, "IndexError")
              ELSE IF s3.exc # "none" THEN s3
              ELSE IF Short(s3, "train_roc") THEN Raise(s3, "IndexError")
              ELSE IF s4.exc # "none" THEN s4
              ELSE IF Short(s4, "valid_roc") THEN Raise(s4, "IndexError")
              ELSE [s4 EXCEPT
                      !.tl = Append(@, At("train_loss")),
                      !.tr = Append(@, At("train_roc")),
                      !.vl = Append(@, At("valid_loss")),
                      !.vr = Append(@, At("valid_roc"))]

RECURSIVE PrintRuns(_, _, _, _, _)
PrintRuns(st, type, runs, r, num_runs) ==
    IF r > num_runs THEN st
    ELSE PrintRuns(PrintRun(st, type, runs, r), type, runs, r + 1, num_runs)

\* round_to is PyNone or PyInt(d).  The result is [logs, exc, out]; out is
\* what is printed: the run count and, for each metric, the mean and the
\* variance over the best models, each to be shown with round_to decimals.
print(l, type, round_to) ==
    LET s0 == Read([logs |-> l, exc |-> "none", out |-> NoRet,
                    tl |-> <<>>, tr |-> <<>>, vl |-> <<>>, vr |-> <<>>],
                   type, "run")
        runs == s0.logs["run"]
    IN  IF s0.exc # "none" THEN s0
        ELSE IF runs = <<>> THEN Raise(s0, "ValueError")
        ELSE
          LET num_runs == MaxOf(runs)
              s == PrintRuns(s0, type, runs, 1, num_runs)
          IN  IF s.exc # "none" THEN s
              ELSE [s EXCEPT !.out =
                      [num_runs |-> num_runs,
                       round_to |-> round_to,
                       train_losses |-> s.tl, train_rocs |-> s.tr,
                       valid_losses |-> s.vl, valid_rocs |-> s.vr,
                       train_loss_mean |-> Mean(s.tl),
                       train_loss_var |-> Variance(s.tl),
                       train_roc_mean |-> Mean(s.tr),
                       train_roc_var |-> Variance(s.tr),
                       valid_loss_mean |-> Mean(s.vl),
                       valid_loss_var |-> Variance(s.vl),
                       valid_roc_mean |-> Mean(s.vr),
                       valid_roc_var |-> Variance(s.vr)]]

PrintLogs(round_to) ==
    /\ LET r == print(logs, logsType, round_to)
       IN  /\ logs' = r.logs
           /\ exc' = r.exc
           /\ ret' = r.out
    /\ op' = "print"
    /\ arg' = round_to
    /\ UNCHANGED <<logsType, files, calls>>

----------------------------------------------------------------------------
(* The Logger of one training session: every epoch is logged with the full *)
(* set of keys, and the logs are plotted and printed in between.           *)

NextView ==
    \/ \E rd \in EpochDicts : Log(rd)
    \/ \E run \in {PyNone, PyInt(1)} : PlotRun(run)
    \/ PrintLogs(PyNone)

InitView == Fresh(PyNone) /\ arg = NoArg

SpecView == InitView /\ [][NextView]_vars

----------------------------------------------------------------------------
(* Logger.mean_values *)

Fill == 0 - 1       \* stands for the fillvalue None; metric values are >= 0

RECURSIVE MaxLenOf(_)
MaxLenOf(lists) ==
    IF lists = <<>> THEN 0
    ELSE LET m == MaxLenOf(Tail(lists))
         IN  IF Len(Head(lists)) > m THEN Len(Head(lists)) ELSE m

\* list(map(list, itertools.zip_longest(*metric_list, fillvalue=None)))
ZipLongest(metric_list) ==
    [e \in 1 .. MaxLenOf(metric_list) |->
        [r \in DOMAIN metric_list |->
            IF e <= Len(metric_list[r]) THEN metric_list[r][e] ELSE Fill]]

\* [l for l in xs if l is not None]
RECURSIVE DropFill(_)
DropFill(xs) ==
    IF xs = <<>> THEN <<>>
    ELSE IF Head(xs) = Fill THEN DropFill(Tail(xs))
    ELSE <<Head(xs)>> \o DropFill(Tail(xs))

\* the result is [exc, means]; epoch_metric[2] is the third epoch
mean_values(metric_list) ==
    LET epoch_metric == ZipLongest(metric_list)
    IN  IF Len(epoch_metric) < 3
        THEN [exc |-> "IndexError", means |-> NoRet]
        ELSE LET appended == [epoch_metric EXCEPT ![3] = Append(@, Fill)]
                 cleaned == [e \in DOMAIN appended |-> DropFill(appended[e])]
             IN  [exc |-> "none",
                  means |-> [e \in DOMAIN cleaned |-> Mean(cleaned[e])]]

MeanValues(metric_list) ==
    /\ op = "init"
    /\ LET r == mean_values(metric_list)
       IN  /\ exc' = r.exc
           /\ ret' = r.means
    /\ op' = "mean_values"
    /\ UNCHANGED <<logs, logsType, files, calls, arg>>

RunSlice(run, run_list) ==
    /\ op = "init"
    /\ LET r == run_slice(run, run_list)
       IN  /\ exc' = r.exc
           /\ ret' = r
    /\ op' = "run_slice"
    /\ UNCHANGED <<logs, logsType, files, calls, arg>>

----------------------------------------------------------------------------
(* The methods that read the logs of an experiment: a file holding a list  *)
(* of logs, one per model.  experiment_logs is the list json.load returns. *)

\* metric.endswith('loss'), for the metric names of the model
EndsWithLoss(metric) == metric \in {"train_loss", "valid_loss", "test_loss"}

\* log['info']['num_runs']
NumRuns(lg) == lg["info"].items["num_runs"].val

\* the loop over the runs of one log in plot_experiment_comparison: the list
\* of the best values, or the exception run_slice or the lookup raised
RECURSIVE BestValues(_, _, _, _)
BestValues(lg, metric, run, acc) ==
    IF run > NumRuns(lg) THEN [exc |-> "none", values |-> acc]
    ELSE IF "run" \notin DOMAIN lg THEN [exc |-> "KeyError", values |-> acc]
    ELSE LET sl == run_slice(run, lg["run"])
         IN  IF sl.exc # "none" THEN [exc |-> sl.exc, values |-> acc]
             ELSE IF metric \notin DOMAIN lg
             THEN [exc |-> "KeyError", values |-> acc]
             ELSE IF Sliced(lg[metric], sl) = <<>>
             THEN [exc |-> "ValueError", values |-> acc]
             ELSE BestValues(lg, metric, run + 1,
                     Append(acc,
                        IF EndsWithLoss(metric)
                        THEN MinOf(Sliced(lg[metric], sl))
                        ELSE MaxOf(Sliced(lg[metric], sl))))

Last(s) == s[Len(s)]

\* st is [exc, plotted, printed]: the points and the lines put out so far
RECURSIVE ComparisonLoop(_, _, _)
ComparisonLoop(st, experiment_logs, metric) ==
    IF experiment_logs = <<>> \/ st.exc # "none" THEN st
    ELSE LET lg == Head(experiment_logs)
             b == BestValues(lg, metric, 1, <<>>)
             s1 == IF b.exc # "none" THEN Raise(st, b.exc)
                   ELSE [st EXCEPT
                      !.plotted = Append(@,
                         [x |-> lg["info"].items["trainable_parameters"].val,
                          y |-> Mean(b.values),
                          label |-> lg["info"].items["model_type"].val]),
                      !.printed = Append(@,
                         [model |-> lg["info"].items["model_type"].val,
                          metric |-> metric,
                          value |-> Last(b.values)])]
         IN  ComparisonLoop(s1, Tail(experiment_logs), metric)

plot_experiment_comparison(experiment_logs, metric) ==
    ComparisonLoop([exc |-> "none", plotted |-> <<>>, printed |-> <<>>],
                   experiment_logs, metric)

PlotExperimentComparison(experiment_logs, metric) ==
    /\ op = "init"
    /\ LET r == plot_experiment_comparison(experiment_logs, metric)
       IN  /\ exc' = r.exc
           /\ ret' = [plotted |-> r.plotted, printed |-> r.printed]
    /\ op' = "plot_experiment_comparison"
    /\ UNCHANGED <<logs, logsType, files, calls, arg>>

\* the loop over the runs of one log in plot_experiment_metric_curves
RECURSIVE RunMetrics(_, _, _, _)
RunMetrics(lg, metric, run, acc) ==
    IF run > NumRuns(lg) THEN [exc |-> "none", values |-> acc]
    ELSE IF "run" \notin DOMAIN lg THEN [exc |-> "KeyError", values |-> acc]
    ELSE LET sl == run_slice(run, lg["run"])
         IN  IF sl.exc # "none" THEN [exc |-> sl.exc, values |-> acc]
             ELSE IF metric \notin DOMAIN lg
             THEN [exc |-> "KeyError", values |-> acc]
             ELSE RunMetrics(lg, metric, run + 1,
                             Append(acc, Sliced(lg[metric], sl)))

\* st is [exc, curves]
RECURSIVE CurvesLoop(_, _, _)
CurvesLoop(st, experiment_logs, metric) ==
    IF experiment_logs = <<>> \/ st.exc # "none" THEN st
    ELSE LET lg == Head(experiment_logs)
             m == RunMetrics(lg, metric, 1, <<>>)
             mv == mean_values(m.values)
             s1 == IF m.exc # "none" THEN Raise(st, m.exc)
                   ELSE IF mv.exc # "none" THEN Raise(st, mv.exc)
                   ELSE [st EXCEPT !.curves = Append(@,
                           [y |-> mv.means,
                            label |-> lg["info"].items["model_type"].val])]
         IN  CurvesLoop(s1, Tail(experiment_logs), metric)

plot_experiment_metric_curves(experiment_logs, metric) ==
    CurvesLoop([exc |-> "none", curves |-> <<>>], experiment_logs, metric)

PlotExperimentMetricCurves(experiment_logs, metric) ==
    /\ op = "init"
    /\ LET r == plot_experiment_metric_curves(experiment_logs, metric)
       IN  /\ exc' = r.exc
           /\ ret' = r.curves
    /\ op' = "plot_experiment_metric_curves"
    /\ UNCHANGED <<logs, logsType, files, calls, arg>>

\* print_experiment: self.logs = log, then self.print(round_to=3), for each
\* log; st is [logs, type, exc, out]
RECURSIVE PrintExperimentLoop(_, _)
PrintExperimentLoop(st, experiment_logs) ==
    IF experiment_logs = <<>> \/ st.exc # "none" THEN st
    ELSE LET r == print(Head(experiment_logs), "dict", PyInt(3))
         IN  PrintExperimentLoop(
                [logs |-> r.logs, type |-> "dict", exc |-> r.exc,
                 out |-> IF r.exc = "none" THEN Append(st.out, r.out) ELSE st.out],
                Tail(experiment_logs))

print_experiment(l, type, experiment_logs) ==
    PrintExperimentLoop([logs |-> l, type |-> type, exc |-> "none", out |-> <<>>],
                        experiment_logs)

PrintExperiment(experiment_logs) ==
    /\ op = "init"
    /\ LET r == print_experiment(logs, logsType, experiment_logs)
       IN  /\ logs' = r.logs
           /\ logsType' = r.type
           /\ exc' = r.exc
           /\ ret' = r.out
    /\ op' = "print_experiment"
    /\ UNCHANGED <<files, calls, arg>>

----------------------------------------------------------------------------
(* Inputs of the methods that take lists. *)

\* the sequences over S of length lo..hi
SeqsOf(S, lo, hi) == UNION {[1 .. n -> S] : n \in lo .. hi}

RunLists == SeqsOf(Runs, 0, MaxLen)
MetricListInputs == SeqsOf(SeqsOf(Losses, 1, MaxLen), 1, MaxRun)

\* the logs a Logger holds after logging the epochs ds, as they are saved
LogsOf(info, ds) ==
    LET f[i \in 0 .. Len(ds)] ==
            IF i = 0 THEN NewLogs(info)
            ELSE log(f[i - 1], "defaultdict", ds[i]).logs
    IN  f[Len(ds)]

\* epochs of an experiment: the training metrics do not vary
ExperimentEpochs == {d \in EpochDicts : d[4][2].loss = 1}

\* the saved logs of experiments of ns runs and lo..hi epochs
ExperimentLog(ns, lo, hi) ==
    {LogsOf(Info(n), ds) : n \in ns, ds \in SeqsOf(ExperimentEpochs, lo, hi)}

\* experiment files of one model, and of two models with MaxRun runs each,
\* of at most MaxEpochs epochs in all
ExperimentLogs ==
    {<<lg>> : lg \in ExperimentLog(Runs, 1, MaxEpochs)}
    \cup UNION {{<<l1, l2>> : l1 \in ExperimentLog({MaxRun}, e, e),
                              l2 \in ExperimentLog({MaxRun}, 1, MaxEpochs - e)}
                : e \in 1 .. MaxEpochs - 1}

\* One call is made on a fresh Logger; arg holds the method to call and its
\* arguments.
CalcInputs ==
    [method : {"run_slice"}, run : Runs, run_list : RunLists]
    \cup [method : {"mean_values"}, metric_list : MetricListInputs]
    \cup [method : {"plot_experiment_comparison", "plot_experiment_metric_curves"},
          experiment_logs : ExperimentLogs,
          metric : {"valid_loss", "valid_roc"}]
    \cup [method : {"print_experiment"}, experiment_logs : ExperimentLogs]

InitCalc == Fresh(PyNone) /\ arg \in CalcInputs

NextCalc ==
    \/ arg.method = "run_slice" /\ RunSlice(arg.run, arg.run_list)
    \/ arg.method = "mean_values" /\ MeanValues(arg.metric_list)
    \/ /\ arg.method = "plot_experiment_comparison"
       /\ PlotExperimentComparison(arg.experiment_logs, arg.metric)
    \/ /\ arg.method = "plot_experiment_metric_curves"
       /\ PlotExperimentMetricCurves(arg.experiment_logs, arg.metric)
    \/ arg.method = "print_experiment" /\ PrintExperiment(arg.experiment_logs)

SpecCalc == InitCalc /\ [][NextCalc]_vars

----------------------------------------------------------------------------
(* json.dump and json.load.  A JSON document is a tree of JSON values, a   *)
(* number being the text written for it.  In logs the entry 'info' is None *)
(* or a dictionary of strings and integers, and every other entry is a     *)
(* list of numbers.                                                        *)

JNull == [json |-> "null"]
JNumber(t) == [json |-> "number", text |-> t]
JString(t) == [json |-> "string", text |-> t]
JArray(es) == [json |-> "array", elems |-> es]
JObject(ms) == [json |-> "object", members |-> ms]

Digits == <<"0", "1", "2", "3", "4", "5", "6", "7", "8", "9">>
\* repr of a number and its inverse, for the numbers 0..9 of the model
NumText(n) == Digits[n + 1]
NumOf(t) == (CHOOSE i \in DOMAIN Digits : Digits[i] = t) - 1

RECURSIVE Encode(_)
Encode(v) ==
    CASE v.type = "NoneType" -> JNull
      [] v.type = "int" -> JNumber(NumText(v.val))
      [] v.type = "str" -> JString(v.val)
      [] v.type = "dict" ->
            JObject([k \in DOMAIN v.items |-> Encode(v.items[k])])

EncodeList(xs) == JArray([i \in DOMAIN xs |-> JNumber(NumText(xs[i]))])

\* json.dump(self.logs, fp): the text written
dumps(l) ==
    JObject([k \in DOMAIN l |->
                IF k = "info" THEN Encode(l[k]) ELSE EncodeList(l[k])])

\* DecodeList reading the array backwards: a faulty variant that C6 must
\* tell from DecodeList
DecodeListReversed(j) ==
    [i \in DOMAIN j.elems |-> NumOf(j.elems[Len(j.elems) + 1 - i].text)]

\* an array of numbers becomes the list of the numbers
DecodeList(j) == [i \in DOMAIN j.elems |-> NumOf(j.elems[i].text)]

RECURSIVE Decode(_)
Decode(j) ==
    CASE j.json = "null" -> PyNone
      [] j.json = "number" -> PyInt(NumOf(j.text))
      [] j.json = "string" -> PyStr(j.text)
      [] j.json = "array" -> DecodeList(j)
      [] j.json = "object" ->
            PyDict([k \in DOMAIN j.members |-> Decode(j.members[k])])

\* json.load(fp) of a document holding an object: a plain dict
loads(j) == [k \in DOMAIN j.members |-> Decode(j.members[k])]

----------------------------------------------------------------------------
(* Logger.save and Logger.load.  A file path is the sequence of its        *)
(* characters.                                                             *)

EndsWith(str, suffix) ==
    /\ Len(suffix) <= Len(str)
    /\ SubSeq(str, Len(str) - Len(suffix) + 1, Len(str)) = suffix

DotJson == <<".", "j", "s", "o", "n">>

Paths ==
    {<<"l", "o", "g">> \o DotJson,
     <<"l", "o", "g", ".", "t", "x", "t">>,
     <<"j", "s", "o", "n">>}

\* the result is [files, exc]
save(l, fs, filepath) ==
    IF ~EndsWith(filepath, DotJson)
    THEN [files |-> fs, exc |-> "AssertionError"]
    ELSE [files |-> Put(fs, filepath, dumps(l)), exc |-> "none"]

Save(filepath) ==
    /\ LET r == save(logs, files, filepath)
       IN  /\ files' = r.files
           /\ exc' = r.exc
    /\ op' = "save"
    /\ arg' = filepath
    /\ ret' = NoRet
    /\ UNCHANGED <<logs, logsType, calls>>

Load(filepath) ==
    /\ IF filepath \notin DOMAIN files
       THEN /\ exc' = "FileNotFoundError"
            /\ UNCHANGED <<logs, logsType>>
       ELSE /\ exc' = "none"
            /\ logs' = loads(files[filepath])
            /\ logsType' = "dict"
    /\ op' = "load"
    /\ arg' = filepath
    /\ ret' = NoRet
    /\ UNCHANGED <<files, calls>>

PersistDicts == DictsOver(<<"valid">>)

NextPersist ==
    \/ \E rd \in PersistDicts : Log(rd)
    \/ \E filepath \in Paths : Save(filepath)
    \/ \E filepath \in Paths : Load(filepath)

SpecPersist == Init /\ [][NextPersist]_vars

----------------------------------------------------------------------------
(* C1, C2: what log does to logs. *)

OldList(k) == IF k \in DOMAIN logs THEN logs[k] ELSE <<>>

Touched(results_dict) ==
    UNION {IF results_dict[i][1] \in sample_sets
           THEN {results_dict[i][1] \o "_loss", results_dict[i][1] \o "_roc"}
           ELSE {results_dict[i][1]} : i \in DOMAIN results_dict}

LogEffect(results_dict) ==
    /\ exc' = "none"
    /\ DOMAIN logs' = (DOMAIN logs) \cup Touched(results_dict)
    /\ \A i \in DOMAIN results_dict :
         LET k == results_dict[i][1]
             v == results_dict[i][2]
         IN  IF k \in sample_sets
             THEN /\ logs'[k \o "_loss"] = Append(OldList(k \o "_loss"), v.loss)
                  /\ logs'[k \o "_roc"] = Append(OldList(k \o "_roc"), v.roc)
             ELSE logs'[k] = Append(OldList(k), v)
    /\ \A k \in (DOMAIN logs) \ Touched(results_dict) : logs'[k] = logs[k]

MetricLists == {k \in DOMAIN logs : k # "info"}

\* C2: when every log call on a fresh Logger carried the same keys, every
\* metric list is as long as the number of calls.
C2_ListsAligned ==
    Cardinality(Range(calls)) <= 1 =>
        \A k \in MetricLists : Len(logs[k]) = Len(calls)

C2_Witness ==
    /\ Len(calls) >= 2 /\ Cardinality(Range(calls)) = 1
    /\ {"run", "epoch", "lr", "train_loss", "train_roc", "valid_loss", "valid_roc"}
          \subseteq DOMAIN logs

\* the precondition of C2 matters: calls with different keys leave the lists
\* of different lengths
C2_MixedKeysReached ==
    /\ Cardinality(Range(calls)) = 2
    /\ \E k1, k2 \in MetricLists : Len(logs[k1]) # Len(logs[k2])

----------------------------------------------------------------------------
(* C4: run_slice. *)

Contiguous(run_list) ==
    \A i, j, k \in DOMAIN run_list :
        (i < j /\ j < k /\ run_list[i] = run_list[k]) => run_list[j] = run_list[i]

\* C4: run_slice(run, run_list) fails with ValueError when run does not occur
\* in run_list; otherwise its slice starts at the first occurrence of run
\* and stops one past the last, and when the runs are contiguous the sliced
\* list holds exactly the entries equal to run.
C4_RunSliceBounds ==
    op = "run_slice" =>
        LET run == arg.run
            run_list == arg.run_list
            occ == {i \in DOMAIN run_list : run_list[i] = run}
        IN  IF occ = {} THEN exc = "ValueError"
            ELSE /\ exc = "none"
                 /\ ret.start + 1 \in occ /\ \A i \in occ : ret.start + 1 <= i
                 /\ ret.stop \in occ /\ \A i \in occ : i <= ret.stop
                 /\ Contiguous(run_list) =>
                       Sliced(run_list, ret) = [i \in 1 .. Cardinality(occ) |-> run]

\* a run of two epochs behind another run
C4_Witness ==
    /\ op = "run_slice" /\ exc = "none"
    /\ Contiguous(arg.run_list)
    /\ ret.start = 1 /\ ret.stop = 3

----------------------------------------------------------------------------
(* C3: mean_values. *)

\* the values run[e] of the runs that have an epoch e (e counted from 1)
RECURSIVE ValuesAtEpoch(_, _)
ValuesAtEpoch(metric_list, e) ==
    IF metric_list = <<>> THEN <<>>
    ELSE (IF Len(Head(metric_list)) >= e THEN <<Head(metric_list)[e]>> ELSE <<>>)
         \o ValuesAtEpoch(Tail(metric_list), e)

MeansOfEpochs(metric_list, means) ==
    /\ Len(means) = MaxLenOf(metric_list)
    /\ \A e \in DOMAIN means :
         LET vals == ValuesAtEpoch(metric_list, e)
         IN  /\ means[e][2] = Len(vals)
             /\ SameFraction(means[e], <<SumSeq(vals), Len(vals)>>)

\* C3: mean_values returns, for every epoch of the longest run, the mean of
\* the values of the runs that have that epoch, for runs of any length.
C3_MeanValuesAnyLength ==
    op = "mean_values" =>
        exc = "none" /\ MeansOfEpochs(arg.metric_list, ret)

\* what mean_values does: the means are right when some run has at least
\* three epochs, and the call raises IndexError otherwise
MeanValuesFromThreeEpochs ==
    op = "mean_values" =>
        IF MaxLenOf(arg.metric_list) >= 3
        THEN exc = "none" /\ MeansOfEpochs(arg.metric_list, ret)
        ELSE exc = "IndexError"

----------------------------------------------------------------------------
(* C5: plot_run without a run. *)

\* C5: plot_run with no run given plots the run holding an epoch of lowest
\* validation loss, over exactly that run's slice.
C5_PlotRunPlotsBestRun ==
    (op = "plot_run" /\ arg = PyNone /\ exc = "none") =>
        \E i \in DOMAIN logs["valid_loss"] :
            /\ \A j \in DOMAIN logs["valid_loss"] :
                  logs["valid_loss"][i] <= logs["valid_loss"][j]
            /\ ret.run = logs["run"][i]
            /\ LET sl == run_slice(ret.run, logs["run"])
               IN  ret.start = sl.start /\ ret.stop = sl.stop

\* what plot_run does: it plots the run holding the first epoch of highest
\* validation loss
PlotRunPlotsWorstRun ==
    (op = "plot_run" /\ arg = PyNone /\ exc = "none") =>
        \E i \in DOMAIN logs["valid_loss"] :
            /\ \A j \in DOMAIN logs["valid_loss"] :
                  logs["valid_loss"][i] >= logs["valid_loss"][j]
            /\ ret.run = logs["run"][i]

----------------------------------------------------------------------------
(* C7: print. *)

MaxIn(S) == CHOOSE m \in S : \A x \in S : x <= m
MinIn(S) == CHOOSE m \in S : \A x \in S : m <= x

\* the index in logs of the best model of run r: the earliest epoch of the
\* run's slice with the lowest validation loss
BestEpochOf(r) ==
    LET occ == {i \in DOMAIN logs["run"] : logs["run"][i] = r}
        inSlice == MinIn(occ) .. MaxIn(occ)
        vl == logs["valid_loss"]
    IN  CHOOSE i \in inSlice : /\ \A j \in inSlice : vl[i] <= vl[j]
                               /\ \A j \in inSlice : j < i => vl[j] > vl[i]

MeanAndVarianceOf(xs, mean, var) ==
    /\ mean[2] = Len(xs)
    /\ SameFraction(mean, <<SumSeq(xs), Len(xs)>>)
    /\ var[2] * (Len(xs) * SumSeq([i \in DOMAIN xs |-> xs[i] * xs[i]])
                   - SumSeq(xs) * SumSeq(xs))
         = var[1] * Len(xs) * Len(xs)

\* C7: print reports max(logs['run']) runs and, for every run r of them, the
\* four metrics of the earliest epoch of lowest validation loss in the run's
\* slice; each mean and deviation is over exactly these values, one per run.
C7_PrintBestModelPerRun ==
    (op = "print" /\ exc = "none") =>
        LET n == MaxIn(Range(logs["run"]))
            Best(k) == [r \in 1 .. n |-> logs[k][BestEpochOf(r)]]
        IN  /\ ret.num_runs = n
            /\ ret.train_losses = Best("train_loss")
            /\ ret.train_rocs = Best("train_roc")
            /\ ret.valid_losses = Best("valid_loss")
            /\ ret.valid_rocs = Best("valid_roc")
            /\ MeanAndVarianceOf(Best("train_loss"),
                                 ret.train_loss_mean, ret.train_loss_var)
            /\ MeanAndVarianceOf(Best("train_roc"),
                                 ret.train_roc_mean, ret.train_roc_var)
            /\ MeanAndVarianceOf(Best("valid_loss"),
                                 ret.valid_loss_mean, ret.valid_loss_var)
            /\ MeanAndVarianceOf(Best("valid_roc"),
                                 ret.valid_roc_mean, ret.valid_roc_var)

\* two runs, the first with two epochs of equal validation loss and
\* different training loss
C7_Witness ==
    /\ op = "print" /\ exc = "none"
    /\ ret.num_runs = 2
    /\ logs["run"] = <<1, 1, 2>>
    /\ logs["valid_loss"][1] = logs["valid_loss"][2]
    /\ logs["train_loss"][1] # logs["train_loss"][2]

----------------------------------------------------------------------------
(* C8: plot_experiment_comparison. *)

\* the best value of the metric in the slice of run r of the log lg
BestOfRun(lg, metric, r) ==
    LET occ == {i \in DOMAIN lg["run"] : lg["run"][i] = r}
        vals == {lg[metric][i] : i \in MinIn(occ) .. MaxIn(occ)}
    IN  IF metric = "valid_loss" THEN MinIn(vals) ELSE MaxIn(vals)

PlottedIsMeanOfBest(lg, metric, point) ==
    LET best == [r \in 1 .. NumRuns(lg) |-> BestOfRun(lg, metric, r)]
    IN  /\ point.y[2] = NumRuns(lg)
        /\ SameFraction(point.y, <<SumSeq(best), NumRuns(lg)>>)

\* C8: for every model the point plotted is the mean over the runs of the
\* best value of the metric in the run (the least loss, the greatest
\* otherwise), and the value printed is the value plotted.
C8_PrintedIsPlotted ==
    (op = "plot_experiment_comparison" /\ exc = "none") =>
        \A i \in DOMAIN arg.experiment_logs :
            /\ PlottedIsMeanOfBest(arg.experiment_logs[i], arg.metric,
                                   ret.plotted[i])
            /\ SameFraction(<<ret.printed[i].value, 1>>, ret.plotted[i].y)

\* what plot_experiment_comparison does: the point plotted is the mean of
\* the best values, the value printed is the best value of the last run
PrintedIsBestOfLastRun ==
    (op = "plot_experiment_comparison" /\ exc = "none") =>
        \A i \in DOMAIN arg.experiment_logs :
            LET lg == arg.experiment_logs[i]
            IN  /\ PlottedIsMeanOfBest(lg, arg.metric, ret.plotted[i])
                /\ ret.printed[i].value = BestOfRun(lg, arg.metric, NumRuns(lg))

----------------------------------------------------------------------------
(* C6: save and load. *)

====
